---- MODULE Spec2Model ----
(***************************************************************************)
(* A model of the eager iterable operations of @alg/enum (src/src/main.js).*)
(*                                                                         *)
(* Every exported function is a synchronous call on one or more one-shot   *)
(* iterators.  An iterator is modelled by the finite list of values it     *)
(* yields and by whether it raises "Bang!" when pulled once more after its *)
(* last value (the test suite's temperamentalIter).  A call records what   *)
(* it returned or raised, how many times it called next() on its input,    *)
(* whether the input reported exhaustion, and every callback invocation.   *)
(* A callback returns a value drawn from a table over the index, or raises *)
(* at one index of the traversal.                                          *)
(***************************************************************************)
EXTENDS Integers, Sequences, FiniteSets, TLC

\* ------------------------------------------------------------------ bounds
MaxLen == 3        \* longest input of a single-iterable operation
MaxIter == 2       \* most data iterables handed to zip or chain
MaxZipLen == 2     \* longest iterable handed to zip or chain
ZipRoundCap == MaxZipLen + 1  \* rounds TLC follows of a zip loop that never ends

\* ------------------------------------------------------------------ values
Null == "null"
Undefined == "undefined"
Val == {"a", "b", Null, Undefined}
ZipVal == {"a", "b"}
FillVal == {Undefined, Null, "X"}

SeqsUpTo(S, n) == UNION {[1..k -> S] : k \in 0..n}

\* An iterable: the values it yields, and whether pulling past them raises.
Source == [items : SeqsUpTo(Val, MaxLen), bang : BOOLEAN]
ZipSource == [items : SeqsUpTo(ZipVal, MaxZipLen), bang : BOOLEAN]

\* The k-th call (k = 1, 2, ...) of next() on the iterator of src.
next(src, k) ==
    IF k <= Len(src.items)
    THEN [done |-> FALSE, throws |-> FALSE, value |-> src.items[k]]
    ELSE IF src.bang /\ k = Len(src.items) + 1
         THEN [done |-> FALSE, throws |-> TRUE, value |-> Undefined]
         ELSE [done |-> TRUE, throws |-> FALSE, value |-> Undefined]

\* A callback (e, i) => ... over one traversal: the k-th invocation receives
\* index k, so its results along the traversal are a table over the index.
Predicate == [0..(MaxLen - 1) -> BOOLEAN]

\* A callback may raise instead of returning: it then does so at one index of
\* the traversal, NoRaise standing for a callback that always returns.
NoRaise == -1
RaiseAt == {NoRaise} \cup (0..(MaxLen - 1))
Callback(table, r) == [returns |-> table, raises |-> r]
Raising(r) == [raises |-> r]
Raises(callback, i) == callback.raises = i
Apply(callback, e, i) == callback.returns[i]

\* ---------------------------------------------------------------- outcomes
NoResult == "no result"
NoError == [name |-> "none", message |-> <<>>]
Bang == [name |-> "Error", message |-> <<"Bang!">>]
\* What a raising callback raises.
ShouldNeverHappen ==
    [name |-> "Error", message |-> <<"This should never happen">>]

Returned(v, p, x, c) ==
    [status |-> "returned", result |-> v, error |-> NoError,
     pulls |-> p, exhausted |-> x, calls |-> c]

Threw(e, p, x, c) ==
    [status |-> "threw", result |-> NoResult, error |-> e,
     pulls |-> p, exhausted |-> x, calls |-> c]

VARIABLES op, args, status, result, error, pulls, exhausted, calls

vars == <<op, args, status, result, error, pulls, exhausted, calls>>

\* A JavaScript value carries its type: the value a call returned is held
\* under the type of value the function returns.
Typed(name, v) ==
    CASE name \in {"all", "any"} -> [boolean |-> v]
      [] name \in {"findIndex", "length"} -> [number |-> v]
      [] name \in {"find", "forEach", "consume"} -> [value |-> v]
      [] name \in {"chunk", "window", "zip"} -> [arrays |-> v]
      [] name = "scan" -> [terms |-> v]
      [] name = "reduce" -> [term |-> v]
      [] name = "reverse" -> v
      [] OTHER -> [array |-> v]

Nothing == [none |-> TRUE]

\* Before any call.  pulls[j] counts the calls of next() on the iterator of
\* the j-th iterable of the call, exhausted[j] tells whether it reported done.
Init ==
    /\ op = "none"
    /\ args = Nothing
    /\ status = "idle"
    /\ result = Nothing
    /\ error = NoError
    /\ pulls = <<>>
    /\ exhausted = <<>>
    /\ calls = <<>>

\* The outcome of a call, p and x being the pulls and the exhaustion of each
\* of its iterables.
Outcome(name, out, p, x) ==
    /\ op' = name
    /\ status' = out.status
    /\ result' = IF out.status = "returned"
                 THEN Typed(name, out.result) ELSE Nothing
    /\ error' = out.error
    /\ pulls' = p
    /\ exhausted' = x
    /\ calls' = out.calls

\* One whole call of an exported function of one iterable: its arguments and
\* its outcome.
Call(name, a, out) ==
    /\ args' = a
    /\ Outcome(name, out, <<out.pulls>>, <<out.exhausted>>)

\* ------------------------------------------------- all, any, find, findIndex
\* Iterator.prototype.every: stop at the first falsy predicate result.
RECURSIVE every(_, _, _, _)
every(src, predicate, counter, log) ==
    LET n == next(src, counter + 1) IN
    IF n.throws THEN Threw(Bang, counter + 1, FALSE, log)
    ELSE IF n.done THEN Returned(TRUE, counter + 1, TRUE, log)
    ELSE LET log2 == Append(log, [e |-> n.value, i |-> counter]) IN
         IF Raises(predicate, counter)
         THEN Threw(ShouldNeverHappen, counter + 1, FALSE, log2)
         ELSE IF ~Apply(predicate, n.value, counter)
         THEN Returned(FALSE, counter + 1, FALSE, log2)
         ELSE every(src, predicate, counter + 1, log2)

\* Iterator.prototype.some: stop at the first truthy predicate result.
RECURSIVE some(_, _, _, _)
some(src, predicate, counter, log) ==
    LET n == next(src, counter + 1) IN
    IF n.throws THEN Threw(Bang, counter + 1, FALSE, log)
    ELSE IF n.done THEN Returned(FALSE, counter + 1, TRUE, log)
    ELSE LET log2 == Append(log, [e |-> n.value, i |-> counter]) IN
         IF Raises(predicate, counter)
         THEN Threw(ShouldNeverHappen, counter + 1, FALSE, log2)
         ELSE IF Apply(predicate, n.value, counter)
         THEN Returned(TRUE, counter + 1, FALSE, log2)
         ELSE some(src, predicate, counter + 1, log2)

\* Iterator.prototype.find: the first value with a truthy predicate result.
RECURSIVE iteratorFind(_, _, _, _)
iteratorFind(src, predicate, counter, log) ==
    LET n == next(src, counter + 1) IN
    IF n.throws THEN Threw(Bang, counter + 1, FALSE, log)
    ELSE IF n.done THEN Returned(Undefined, counter + 1, TRUE, log)
    ELSE LET log2 == Append(log, [e |-> n.value, i |-> counter]) IN
         IF Raises(predicate, counter)
         THEN Threw(ShouldNeverHappen, counter + 1, FALSE, log2)
         ELSE IF Apply(predicate, n.value, counter)
         THEN Returned(n.value, counter + 1, FALSE, log2)
         ELSE iteratorFind(src, predicate, counter + 1, log2)

\* A variant of all that materialises the input before testing it.
all_drains(iterable, predicate) ==
    IF iterable.bang
    THEN Threw(Bang, Len(iterable.items) + 1, FALSE, <<>>)
    ELSE LET r == every(iterable, predicate, 0, <<>>) IN
         [r EXCEPT !.pulls = Len(iterable.items) + 1, !.exhausted = TRUE]

all(iterable, predicate) == every(iterable, predicate, 0, <<>>)

\* A variant of any that answers whether some element fails the predicate.
any_notEvery(iterable, predicate) ==
    LET r == every(iterable, predicate, 0, <<>>) IN
    IF r.status = "returned" THEN [r EXCEPT !.result = ~@] ELSE r

any(iterable, predicate) == some(iterable, predicate, 0, <<>>)

find(iterable, predicate) == iteratorFind(iterable, predicate, 0, <<>>)

RECURSIVE findIndexLoop(_, _, _, _)
findIndexLoop(src, predicate, i, log) ==
    LET n == next(src, i + 1) IN
    IF n.throws THEN Threw(Bang, i + 1, FALSE, log)
    ELSE IF n.done THEN Returned(-1, i + 1, TRUE, log)
    ELSE LET log2 == Append(log, [e |-> n.value, i |-> i]) IN
         IF Raises(predicate, i)
         THEN Threw(ShouldNeverHappen, i + 1, FALSE, log2)
         ELSE IF Apply(predicate, n.value, i)
         THEN Returned(i, i + 1, FALSE, log2)
         ELSE findIndexLoop(src, predicate, i + 1, log2)

findIndex(iterable, predicate) == findIndexLoop(iterable, predicate, 0, <<>>)

CallAll ==
    /\ status = "idle"
    /\ \E src \in Source, p \in Predicate, r \in RaiseAt :
        Call("all", [iterable |-> src, predicate |-> p, raises |-> r],
             all(src, Callback(p, r)))

CallAny ==
    /\ status = "idle"
    /\ \E src \in Source, p \in Predicate, r \in RaiseAt :
        Call("any", [iterable |-> src, predicate |-> p, raises |-> r],
             any(src, Callback(p, r)))

CallFind ==
    /\ status = "idle"
    /\ \E src \in Source, p \in Predicate, r \in RaiseAt :
        Call("find", [iterable |-> src, predicate |-> p, raises |-> r],
             find(src, Callback(p, r)))

CallFindIndex ==
    /\ status = "idle"
    /\ \E src \in Source, p \in Predicate, r \in RaiseAt :
        Call("findIndex", [iterable |-> src, predicate |-> p, raises |-> r],
             findIndex(src, Callback(p, r)))

\* ------------------------------------------------------------ spread, for-of
\* [...it] on an iterator on which next() was already called k times.
RECURSIVE spread(_, _, _)
spread(src, k, acc) ==
    LET n == next(src, k + 1) IN
    IF n.throws THEN Threw(Bang, k + 1, FALSE, <<>>)
    ELSE IF n.done THEN Returned(acc, k + 1, TRUE, <<>>)
    ELSE spread(src, k + 1, Append(acc, n.value))

\* ------------------------------------------------------------------ take, drop
RangeError == [name |-> "RangeError", message |-> <<"must be positive">>]

\* Iterator.prototype.take: the remaining count is tested before each pull.
RECURSIVE iteratorTake(_, _, _, _)
iteratorTake(src, remaining, k, acc) ==
    IF remaining = 0 THEN Returned(acc, k, FALSE, <<>>)
    ELSE LET n == next(src, k + 1) IN
         IF n.throws THEN Threw(Bang, k + 1, FALSE, <<>>)
         ELSE IF n.done THEN Returned(acc, k + 1, TRUE, <<>>)
         ELSE iteratorTake(src, remaining - 1, k + 1, Append(acc, n.value))

\* A variant of iteratorTake that pulls before it tests the remaining count.
RECURSIVE iteratorTake_pullsFirst(_, _, _, _)
iteratorTake_pullsFirst(src, remaining, k, acc) ==
    LET n == next(src, k + 1) IN
    IF n.throws THEN Threw(Bang, k + 1, FALSE, <<>>)
    ELSE IF n.done THEN Returned(acc, k + 1, TRUE, <<>>)
    ELSE IF remaining = 0 THEN Returned(acc, k + 1, FALSE, <<>>)
    ELSE iteratorTake_pullsFirst(src, remaining - 1, k + 1,
                                 Append(acc, n.value))

take_pullsFirst(iterable, limit) ==
    IF limit < 0 THEN Threw(RangeError, 0, FALSE, <<>>)
    ELSE iteratorTake_pullsFirst(iterable, limit, 0, <<>>)

take(iterable, limit) ==
    IF limit < 0 THEN Threw(RangeError, 0, FALSE, <<>>)
    ELSE iteratorTake(iterable, limit, 0, <<>>)

RECURSIVE dropLoop(_, _, _)
dropLoop(src, limit, i) ==
    IF i < limit
    THEN LET n == next(src, i + 1) IN
         IF n.throws THEN Threw(Bang, i + 1, FALSE, <<>>)
         ELSE dropLoop(src, limit, i + 1)
    ELSE spread(src, i, <<>>)

\* A variant of drop that spreads the iterable instead of the advanced iterator.
drop_spreadsIterable(iterable, limit) ==
    LET skipped == dropLoop(iterable, limit, 0) IN
    IF skipped.status = "threw" THEN skipped
    ELSE [skipped EXCEPT !.result = iterable.items]

\* A variant of drop whose skipping loop runs once too often.
drop_skipsOneMore(iterable, limit) == dropLoop(iterable, limit + 1, 0)

drop(iterable, limit) == dropLoop(iterable, limit, 0)

CallTake ==
    /\ status = "idle"
    /\ \E src \in Source, limit \in -1..(MaxLen + 1) :
        Call("take", [iterable |-> src, limit |-> limit], take(src, limit))

CallDrop ==
    /\ status = "idle"
    /\ \E src \in Source, limit \in -1..(MaxLen + 1) :
        Call("drop", [iterable |-> src, limit |-> limit], drop(src, limit))

\* ---------------------------------------------------- map, filter, flatMap
Mapping == [0..(MaxLen - 1) -> {"A", "B"}]
FlatMapping == [0..(MaxLen - 1) -> {<<>>, <<"A">>, <<"A", "B">>}]

\* [...it.map(mapping)]: Iterator.prototype.map pulled to its end.
RECURSIVE mapLoop(_, _, _, _, _)
mapLoop(src, mapping, counter, acc, log) ==
    LET n == next(src, counter + 1) IN
    IF n.throws THEN Threw(Bang, counter + 1, FALSE, log)
    ELSE IF n.done THEN Returned(acc, counter + 1, TRUE, log)
    ELSE LET log2 == Append(log, [e |-> n.value, i |-> counter]) IN
         IF Raises(mapping, counter)
         THEN Threw(ShouldNeverHappen, counter + 1, FALSE, log2)
         ELSE mapLoop(src, mapping, counter + 1,
                      Append(acc, Apply(mapping, n.value, counter)), log2)

map(iterable, mapping) == mapLoop(iterable, mapping, 0, <<>>, <<>>)

\* [...it.filter(predicate)]: Iterator.prototype.filter pulled to its end.
RECURSIVE filterLoop(_, _, _, _, _)
filterLoop(src, predicate, counter, acc, log) ==
    LET n == next(src, counter + 1) IN
    IF n.throws THEN Threw(Bang, counter + 1, FALSE, log)
    ELSE IF n.done THEN Returned(acc, counter + 1, TRUE, log)
    ELSE LET log2 == Append(log, [e |-> n.value, i |-> counter]) IN
         IF Raises(predicate, counter)
         THEN Threw(ShouldNeverHappen, counter + 1, FALSE, log2)
         ELSE filterLoop(src, predicate, counter + 1,
                         IF Apply(predicate, n.value, counter)
                         THEN Append(acc, n.value) ELSE acc,
                         log2)

\* A variant of filterLoop that hands the predicate the position the element
\* would take in the output.
RECURSIVE filterLoop_countsOutput(_, _, _, _, _)
filterLoop_countsOutput(src, predicate, counter, acc, log) ==
    LET n == next(src, counter + 1) IN
    IF n.throws THEN Threw(Bang, counter + 1, FALSE, log)
    ELSE IF n.done THEN Returned(acc, counter + 1, TRUE, log)
    ELSE LET log2 == Append(log, [e |-> n.value, i |-> Len(acc)]) IN
         IF Raises(predicate, Len(acc))
         THEN Threw(ShouldNeverHappen, counter + 1, FALSE, log2)
         ELSE filterLoop_countsOutput(src, predicate, counter + 1,
                                      IF Apply(predicate, n.value, Len(acc))
                                      THEN Append(acc, n.value) ELSE acc,
                                      log2)

filter_countsOutput(iterable, predicate) ==
    filterLoop_countsOutput(iterable, predicate, 0, <<>>, <<>>)

filter(iterable, predicate) == filterLoop(iterable, predicate, 0, <<>>, <<>>)

RECURSIVE flatMapLoop(_, _, _, _, _)
flatMapLoop(src, mapping, i, acc, log) ==
    LET n == next(src, i + 1) IN
    IF n.throws THEN Threw(Bang, i + 1, FALSE, log)
    ELSE IF n.done THEN Returned(acc, i + 1, TRUE, log)
    ELSE LET log2 == Append(log, [e |-> n.value, i |-> i]) IN
         IF Raises(mapping, i)
         THEN Threw(ShouldNeverHappen, i + 1, FALSE, log2)
         ELSE flatMapLoop(src, mapping, i + 1,
                          acc \o Apply(mapping, n.value, i), log2)

flatMap(iterable, mapping) == flatMapLoop(iterable, mapping, 0, <<>>, <<>>)

\* ------------------------------------------------- forEach, length, consume
RECURSIVE forEachLoop(_, _, _, _)
forEachLoop(src, consumer, i, log) ==
    LET n == next(src, i + 1) IN
    IF n.throws THEN Threw(Bang, i + 1, FALSE, log)
    ELSE IF n.done THEN Returned(Undefined, i + 1, TRUE, log)
    ELSE LET log2 == Append(log, [e |-> n.value, i |-> i]) IN
         IF Raises(consumer, i)
         THEN Threw(ShouldNeverHappen, i + 1, FALSE, log2)
         ELSE forEachLoop(src, consumer, i + 1, log2)

\* A variant of forEach that goes on when the consumer raises.
forEach_swallows(iterable, consumer) ==
    forEachLoop(iterable, Raising(NoRaise), 0, <<>>)

forEach(iterable, consumer) == forEachLoop(iterable, consumer, 0, <<>>)

RECURSIVE lengthLoop(_, _)
lengthLoop(src, count) ==
    LET n == next(src, count + 1) IN
    IF n.throws THEN Threw(Bang, count + 1, FALSE, <<>>)
    ELSE IF n.done THEN Returned(count, count + 1, TRUE, <<>>)
    ELSE lengthLoop(src, count + 1)

\* A variant of length that reads the size of the input without iterating.
length_readsSize(iterable) == Returned(Len(iterable.items), 0, FALSE, <<>>)

length(iterable) == lengthLoop(iterable, 0)

consume(iterable) ==
    LET gobbled == spread(iterable, 0, <<>>) IN
    IF gobbled.status = "threw" THEN gobbled
    ELSE [gobbled EXCEPT !.result = Undefined]

CallMap ==
    /\ status = "idle"
    /\ \E src \in Source, m \in Mapping, r \in RaiseAt :
        Call("map", [iterable |-> src, mapping |-> m, raises |-> r],
             map(src, Callback(m, r)))

CallFilter ==
    /\ status = "idle"
    /\ \E src \in Source, p \in Predicate, r \in RaiseAt :
        Call("filter", [iterable |-> src, predicate |-> p, raises |-> r],
             filter(src, Callback(p, r)))

CallFlatMap ==
    /\ status = "idle"
    /\ \E src \in Source, m \in FlatMapping, r \in RaiseAt :
        Call("flatMap", [iterable |-> src, flatMapping |-> m, raises |-> r],
             flatMap(src, Callback(m, r)))

CallForEach ==
    /\ status = "idle"
    /\ \E src \in Source, r \in RaiseAt :
        Call("forEach", [iterable |-> src, raises |-> r],
             forEach(src, Raising(r)))

CallLength ==
    /\ status = "idle"
    /\ \E src \in Source :
        Call("length", [iterable |-> src], length(src))

CallConsume ==
    /\ status = "idle"
    /\ \E src \in Source :
        Call("consume", [iterable |-> src], consume(src))

\* ----------------------------------------------------------------- chain
\* for (const it of iterables) result.push(...it), from iterable number j on.
RECURSIVE chainLoop(_, _, _, _, _)
chainLoop(iterables, j, acc, p, x) ==
    IF j > Len(iterables) THEN Returned(acc, p, x, <<>>)
    ELSE LET s == spread(iterables[j], 0, <<>>) IN
         IF s.status = "threw"
         THEN Threw(s.error, [p EXCEPT ![j] = s.pulls], x, <<>>)
         ELSE chainLoop(iterables, j + 1, acc \o s.result,
                        [p EXCEPT ![j] = s.pulls], [x EXCEPT ![j] = TRUE])

chain(iterables) ==
    chainLoop(iterables, 1, <<>>,
              [j \in 1..Len(iterables) |-> 0],
              [j \in 1..Len(iterables) |-> FALSE])

\* ----------------------------------------------------------------- dedup
\* A caller-supplied eq is one of a few named functions of (left, right).
\* "near" relates "a" with "b" and "b" with null, but not "a" with null: it
\* is not transitive.
EqSet == {"strictEquals", "alwaysEqual", "neverEqual", "near"}
ApplyEq(eq, left, right) ==
    CASE eq = "strictEquals" -> left = right
      [] eq = "alwaysEqual" -> TRUE
      [] eq = "neverEqual" -> FALSE
      [] eq = "near" -> \/ left = right
                        \/ {left, right} \in {{"a", "b"}, {"b", Null}}

\* The eq handed to dedup: the function named, raising at the invocation
\* numbered raises (from 0).
EqCallback(name, r) == [name |-> name, raises |-> r]

RECURSIVE dedupLoop(_, _, _, _, _)
dedupLoop(src, eq, k, acc, log) ==
    LET n == next(src, k + 1) IN
    IF n.throws THEN Threw(Bang, k + 1, FALSE, log)
    ELSE IF n.done THEN Returned(acc, k + 1, TRUE, log)
    ELSE LET log2 == Append(log, [left |-> acc[Len(acc)],
                                  right |-> n.value])
         IN  IF eq.raises = Len(log)
             THEN Threw(ShouldNeverHappen, k + 1, FALSE, log2)
             ELSE dedupLoop(src, eq, k + 1,
                            IF ~ApplyEq(eq.name, acc[Len(acc)], n.value)
                            THEN Append(acc, n.value) ELSE acc,
                            log2)

\* A variant of dedup whose default eq holds of every pair.
dedup_defaultAlwaysEqual(iterable, options) ==
    LET eq == IF options.eq.name = Undefined
              THEN EqCallback("alwaysEqual", NoRaise) ELSE options.eq
        first == next(iterable, 1)
    IN  IF first.throws THEN Threw(Bang, 1, FALSE, <<>>)
        ELSE IF first.done THEN Returned(<<>>, 1, TRUE, <<>>)
        ELSE dedupLoop(iterable, eq, 1, <<first.value>>, <<>>)

\* A variant of dedupLoop that compares an element with its predecessor in
\* the input, prev, instead of the last element kept.
RECURSIVE dedupLoop_vsPredecessor(_, _, _, _, _, _)
dedupLoop_vsPredecessor(src, eq, k, prev, acc, log) ==
    LET n == next(src, k + 1) IN
    IF n.throws THEN Threw(Bang, k + 1, FALSE, log)
    ELSE IF n.done THEN Returned(acc, k + 1, TRUE, log)
    ELSE LET log2 == Append(log, [left |-> prev, right |-> n.value])
         IN  IF eq.raises = Len(log)
             THEN Threw(ShouldNeverHappen, k + 1, FALSE, log2)
             ELSE dedupLoop_vsPredecessor(src, eq, k + 1, n.value,
                        IF ~ApplyEq(eq.name, prev, n.value)
                        THEN Append(acc, n.value) ELSE acc,
                        log2)

dedup_vsPredecessor(iterable, options) ==
    LET eq == IF options.eq.name = Undefined
              THEN EqCallback("strictEquals", NoRaise) ELSE options.eq
        first == next(iterable, 1)
    IN  IF first.throws THEN Threw(Bang, 1, FALSE, <<>>)
        ELSE IF first.done THEN Returned(<<>>, 1, TRUE, <<>>)
        ELSE dedupLoop_vsPredecessor(iterable, eq, 1, first.value,
                                     <<first.value>>, <<>>)

\* options.eq is named Undefined when the caller gives no eq: the default
\* applies.
dedup(iterable, options) ==
    LET eq == IF options.eq.name = Undefined
              THEN EqCallback("strictEquals", NoRaise) ELSE options.eq
        first == next(iterable, 1)
    IN  IF first.throws THEN Threw(Bang, 1, FALSE, <<>>)
        ELSE IF first.done THEN Returned(<<>>, 1, TRUE, <<>>)
        ELSE dedupLoop(iterable, eq, 1, <<first.value>>, <<>>)

\* ------------------------------------------------------------- dropWhile
\* The while loop: e is the result of the (i + 1)-th call of next().
RECURSIVE dropWhileLoop(_, _, _, _)
dropWhileLoop(src, predicate, i, log) ==
    LET e == next(src, i + 1) IN
    IF e.throws THEN Threw(Bang, i + 1, FALSE, log)
    ELSE IF e.done THEN Returned(<<>>, i + 1, TRUE, log)
    ELSE LET log2 == Append(log, [e |-> e.value, i |-> i]) IN
         IF Raises(predicate, i)
         THEN Threw(ShouldNeverHappen, i + 1, FALSE, log2)
         ELSE IF Apply(predicate, e.value, i)
         THEN dropWhileLoop(src, predicate, i + 1, log2)
         ELSE LET rest == spread(src, i + 1, <<e.value>>) IN
              [rest EXCEPT !.calls = log2]

\* A variant of dropWhile that goes on testing after the first failing
\* element and drops every element that satisfies the predicate.
dropWhile_keepsTesting(iterable, predicate) ==
    filterLoop(iterable,
               [predicate EXCEPT !.returns = [i \in DOMAIN @ |-> ~@[i]]],
               0, <<>>, <<>>)

dropWhile(iterable, predicate) == dropWhileLoop(iterable, predicate, 0, <<>>)

\* ------------------------------------------------------------------ scan
\* The accumulator is an uninterpreted function: where it returns, its result
\* is the term built from its three arguments.
accumulator(current, e, i) == <<current, e, i>>

\* An accumulator value that is an element or the seed, not a result of the
\* accumulator.
Leaf(v) == <<v>>

RECURSIVE scanLoop(_, _, _, _, _, _, _)
scanLoop(src, callback, k, current, i, acc, log) ==
    LET n == next(src, k + 1) IN
    IF n.throws THEN Threw(Bang, k + 1, FALSE, log)
    ELSE IF n.done THEN Returned(acc, k + 1, TRUE, log)
    ELSE LET a == accumulator(current, n.value, i)
             log2 == Append(log, [current |-> current, e |-> n.value,
                                  i |-> i])
         IN  IF Raises(callback, i)
             THEN Threw(ShouldNeverHappen, k + 1, FALSE, log2)
             ELSE scanLoop(src, callback, k + 1, a, i + 1, Append(acc, a),
                           log2)

\* A variant of scan that emits the seed it is given.
scan_emitsSeed(iterable, callback, initial) ==
    IF initial # Undefined
    THEN scanLoop(iterable, callback, 0, Leaf(initial), 0, <<Leaf(initial)>>,
                  <<>>)
    ELSE LET first == next(iterable, 1) IN
         IF first.throws THEN Threw(Bang, 1, FALSE, <<>>)
         ELSE IF first.done THEN Returned(<<>>, 1, TRUE, <<>>)
         ELSE scanLoop(iterable, callback, 1, Leaf(first.value), 1,
                       <<Leaf(first.value)>>, <<>>)

\* callback stands for the accumulator argument of scan.
scan(iterable, callback, initial) ==
    IF initial # Undefined
    THEN scanLoop(iterable, callback, 0, Leaf(initial), 0, <<>>, <<>>)
    ELSE LET first == next(iterable, 1) IN
         IF first.throws THEN Threw(Bang, 1, FALSE, <<>>)
         ELSE IF first.done THEN Returned(<<>>, 1, TRUE, <<>>)
         ELSE scanLoop(iterable, callback, 1, Leaf(first.value), 1,
                       <<Leaf(first.value)>>, <<>>)

\* ---------------------------------------------------------------- reduce
\* The reducer is an uninterpreted function: where it returns, its result is
\* the term built from its three arguments.
reducer(acc, e, i) == <<acc, e, i>>

\* What Iterator.prototype.reduce raises on an iterator that is done when no
\* initial value is passed.
ReduceOfEmpty ==
    [name |-> "TypeError",
     message |-> <<"Reduce of a done iterator with no initial value">>]

\* The loop of Iterator.prototype.reduce.
RECURSIVE iteratorReduceLoop(_, _, _, _, _, _)
iteratorReduceLoop(src, callback, k, acc, counter, log) ==
    LET n == next(src, k + 1) IN
    IF n.throws THEN Threw(Bang, k + 1, FALSE, log)
    ELSE IF n.done THEN Returned(acc, k + 1, TRUE, log)
    ELSE LET log2 == Append(log, [current |-> acc, e |-> n.value,
                                  i |-> counter])
         IN  IF Raises(callback, counter)
             THEN Threw(ShouldNeverHappen, k + 1, FALSE, log2)
             ELSE iteratorReduceLoop(src, callback, k + 1,
                                     reducer(acc, n.value, counter),
                                     counter + 1, log2)

\* Iterator.prototype.reduce called with one argument (passed = FALSE) or
\* with two; callback stands for the reducer.
iteratorReduce(src, callback, passed, initialValue) ==
    IF passed
    THEN iteratorReduceLoop(src, callback, 0, Leaf(initialValue), 0, <<>>)
    ELSE LET first == next(src, 1) IN
         IF first.throws THEN Threw(Bang, 1, FALSE, <<>>)
         ELSE IF first.done THEN Threw(ReduceOfEmpty, 1, TRUE, <<>>)
         ELSE iteratorReduceLoop(src, callback, 1, Leaf(first.value), 1, <<>>)

\* A variant of reduce that always passes initial on.
reduce_alwaysSeeds(iterable, callback, initial) ==
    iteratorReduce(iterable, callback, TRUE, initial)

\* initial is Undefined when the caller passes none.
reduce(iterable, callback, initial) ==
    IF initial = Undefined
    THEN iteratorReduce(iterable, callback, FALSE, Undefined)
    ELSE iteratorReduce(iterable, callback, TRUE, initial)

CallReduce ==
    /\ status = "idle"
    /\ \E src \in Source, initial \in {Undefined, Null, "z"}, r \in RaiseAt :
        Call("reduce", [iterable |-> src, initial |-> initial, raises |-> r],
             reduce(src, Raising(r), initial))

\* ------------------------------------------------------------- takeWhile
\* for (const e of iterable): the break leaves the loop without a further
\* call of next().
RECURSIVE takeWhileLoop(_, _, _, _, _)
takeWhileLoop(src, predicate, i, acc, log) ==
    LET n == next(src, i + 1) IN
    IF n.throws THEN Threw(Bang, i + 1, FALSE, log)
    ELSE IF n.done THEN Returned(acc, i + 1, TRUE, log)
    ELSE LET log2 == Append(log, [e |-> n.value, i |-> i]) IN
         IF Raises(predicate, i)
         THEN Threw(ShouldNeverHappen, i + 1, FALSE, log2)
         ELSE IF Apply(predicate, n.value, i)
         THEN takeWhileLoop(src, predicate, i + 1, Append(acc, n.value), log2)
         ELSE Returned(acc, i + 1, FALSE, log2)

\* A variant of takeWhile that goes on after a failing element.
takeWhile_resumes(iterable, predicate) ==
    filterLoop(iterable, predicate, 0, <<>>, <<>>)

\* A variant of takeWhile that also keeps the first failing element.
takeWhile_keepsFailing(iterable, predicate) ==
    LET r == takeWhileLoop(iterable, predicate, 0, <<>>, <<>>) IN
    IF r.status = "returned" /\ ~r.exhausted
    THEN [r EXCEPT !.result = Append(@, iterable.items[r.pulls])]
    ELSE r

takeWhile(iterable, predicate) ==
    takeWhileLoop(iterable, predicate, 0, <<>>, <<>>)

CallTakeWhile ==
    /\ status = "idle"
    /\ \E src \in Source, p \in Predicate, r \in RaiseAt :
        Call("takeWhile", [iterable |-> src, predicate |-> p, raises |-> r],
             takeWhile(src, Callback(p, r)))

\* --------------------------------------------------------------- reverse
\* Array.prototype.reverse: the elements of arr in the opposite order.
ArrayReverse(arr) == [k \in 1..Len(arr) |-> arr[Len(arr) - k + 1]]

\* A variant of reverse that reverses the input array itself and returns it.
reverse_inPlace(iterable) ==
    LET copied == spread(iterable, 0, <<>>) IN
    IF copied.status = "threw" THEN copied
    ELSE [copied EXCEPT !.result = [array |-> ArrayReverse(@),
                                     input |-> ArrayReverse(iterable.items)]]

\* result = [...iterable] is a new array, and it is the one reversed: the
\* outcome holds it with the elements of the input array after the call.
reverse(iterable) ==
    LET copied == spread(iterable, 0, <<>>) IN
    IF copied.status = "threw" THEN copied
    ELSE [copied EXCEPT !.result = [array |-> ArrayReverse(@),
                                     input |-> iterable.items]]

CallReverse ==
    /\ status = "idle"
    /\ \E src \in Source :
        Call("reverse", [iterable |-> src], reverse(src))

\* ---------------------------------------------------------------- repeat
RECURSIVE repeatLoop(_, _, _, _)
repeatLoop(object, times, i, acc) ==
    IF i < times THEN repeatLoop(object, times, i + 1, Append(acc, object))
    ELSE Returned(acc, 0, FALSE, <<>>)

repeat(object, times) == repeatLoop(object, times, 0, <<>>)

\* repeat takes no iterable: nothing is pulled.
CallRepeat ==
    /\ status = "idle"
    /\ \E object \in Val, times \in -1..MaxLen :
        LET out == repeat(object, times) IN
        /\ args' = [object |-> object, times |-> times]
        /\ Outcome("repeat", out, <<>>, <<>>)

CallChain ==
    /\ status = "idle"
    /\ \E its \in SeqsUpTo(ZipSource, MaxIter) :
        LET out == chain(its) IN
        /\ args' = [iterables |-> its]
        /\ Outcome("chain", out, out.pulls, out.exhausted)

CallDedup ==
    /\ status = "idle"
    /\ \E src \in Source, eq \in EqSet \cup {Undefined} :
        \E r \in IF eq = Undefined THEN {NoRaise} ELSE RaiseAt :
            Call("dedup",
                 [iterable |-> src, options |-> [eq |-> eq], raises |-> r],
                 dedup(src, [eq |-> EqCallback(eq, r)]))

CallDropWhile ==
    /\ status = "idle"
    /\ \E src \in Source, p \in Predicate, r \in RaiseAt :
        Call("dropWhile", [iterable |-> src, predicate |-> p, raises |-> r],
             dropWhile(src, Callback(p, r)))

CallScan ==
    /\ status = "idle"
    /\ \E src \in Source, initial \in {Undefined, Null, "z"}, r \in RaiseAt :
        Call("scan", [iterable |-> src, initial |-> initial, raises |-> r],
             scan(src, Raising(r), initial))

\* ----------------------------------------------------------------- chunk
ChunkStrategy == {"dropEnd", "keepEnd", "padEnd", "strict"}
ChunkSizeError ==
    [name |-> "Error", message |-> <<"Cannot yield chunks of size <= 0">>]
IncompleteChunk == [name |-> "Error", message |-> <<"Incomplete chunk">>]

\* e ?? fillValue
Coalesce(e, fillValue) == IF e \in {Null, Undefined} THEN fillValue ELSE e

\* current.length = size; Array.from(current, (e) => e ?? fillValue):
\* the slots added by the assignment to length read as undefined.
PadEnd(current, size, fillValue) ==
    [k \in 1..size |->
        Coalesce(IF k <= Len(current) THEN current[k] ELSE Undefined,
                 fillValue)]

\* A variant of chunkEnd that keeps the incomplete group under every strategy
\* that neither pads nor raises.
chunkEnd_keepsPartial(acc, current, size, strategy, fillValue, p) ==
    IF strategy = "padEnd" /\ Len(current) # 0
    THEN Returned(Append(acc, PadEnd(current, size, fillValue)), p, TRUE, <<>>)
    ELSE IF strategy = "strict" /\ Len(current) # 0
    THEN Threw(IncompleteChunk, p, TRUE, <<>>)
    ELSE IF Len(current) # 0
    THEN Returned(Append(acc, current), p, TRUE, <<>>)
    ELSE Returned(acc, p, TRUE, <<>>)

\* A variant of chunkEnd that drops the incomplete group under keepEnd.
chunkEnd_dropsPartial(acc, current, size, strategy, fillValue, p) ==
    IF strategy = "padEnd" /\ Len(current) # 0
    THEN Returned(Append(acc, PadEnd(current, size, fillValue)), p, TRUE, <<>>)
    ELSE IF strategy = "strict" /\ Len(current) # 0
    THEN Threw(IncompleteChunk, p, TRUE, <<>>)
    ELSE Returned(acc, p, TRUE, <<>>)

\* A variant of chunkEnd that does not raise under strict.
chunkEnd_strictIsSilent(acc, current, size, strategy, fillValue, p) ==
    IF strategy = "keepEnd" /\ Len(current) # 0
    THEN Returned(Append(acc, current), p, TRUE, <<>>)
    ELSE IF strategy = "padEnd" /\ Len(current) # 0
    THEN Returned(Append(acc, PadEnd(current, size, fillValue)), p, TRUE, <<>>)
    ELSE Returned(acc, p, TRUE, <<>>)

\* What follows the loop of chunk, after p calls of next().
chunkEnd(acc, current, size, strategy, fillValue, p) ==
    IF strategy = "keepEnd" /\ Len(current) # 0
    THEN Returned(Append(acc, current), p, TRUE, <<>>)
    ELSE IF strategy = "padEnd" /\ Len(current) # 0
    THEN Returned(Append(acc, PadEnd(current, size, fillValue)), p, TRUE, <<>>)
    ELSE IF strategy = "strict" /\ Len(current) # 0
    THEN Threw(IncompleteChunk, p, TRUE, <<>>)
    ELSE Returned(acc, p, TRUE, <<>>)

RECURSIVE chunkLoop(_, _, _, _, _, _, _)
chunkLoop(src, size, strategy, fillValue, k, acc, current) ==
    LET n == next(src, k + 1) IN
    IF n.throws THEN Threw(Bang, k + 1, FALSE, <<>>)
    ELSE IF n.done
    THEN chunkEnd(acc, current, size, strategy, fillValue, k + 1)
    ELSE LET pushed == Append(current, n.value) IN
         IF Len(pushed) = size
         THEN chunkLoop(src, size, strategy, fillValue, k + 1,
                        Append(acc, pushed), <<>>)
         ELSE chunkLoop(src, size, strategy, fillValue, k + 1, acc, pushed)

\* A variant of chunk that rejects only the size 0.
chunk_zeroOnly(iterable, size, options) ==
    LET strategy == IF options.strategy = Undefined
                    THEN "dropEnd" ELSE options.strategy
        fillValue == options.fillValue
    IN  IF size = 0 THEN Threw(ChunkSizeError, 0, FALSE, <<>>)
        ELSE chunkLoop(iterable, size, strategy, fillValue, 0, <<>>, <<>>)

\* options.strategy and options.fillValue are Undefined when not given; the
\* destructuring defaults then apply.
chunk(iterable, size, options) ==
    LET strategy == IF options.strategy = Undefined
                    THEN "dropEnd" ELSE options.strategy
        fillValue == options.fillValue
    IN  IF size <= 0 THEN Threw(ChunkSizeError, 0, FALSE, <<>>)
        ELSE chunkLoop(iterable, size, strategy, fillValue, 0, <<>>, <<>>)

\* ---------------------------------------------------------------- window
WindowSizeError ==
    [name |-> "Error",
     message |-> <<"Cannot yield sliding windows of size 0">>]

Abs(n) == IF n < 0 THEN -n ELSE n

\* The % of JavaScript: the result takes the sign of the dividend.
JsRem(a, b) == IF a < 0 THEN -((-a) % Abs(b)) ELSE a % Abs(b)

\* arr.slice(from) and arr.slice(0, to) for 0 <= from, to.
SliceFrom(arr, from) ==
    IF from >= Len(arr) THEN <<>> ELSE SubSeq(arr, from + 1, Len(arr))
SliceTo(arr, to) ==
    IF to <= 0 THEN <<>>
    ELSE SubSeq(arr, 1, IF to > Len(arr) THEN Len(arr) ELSE to)

\* arr[index] = e: a write past the end grows the array, the slots skipped
\* reading as undefined.
SetAt(arr, index, e) ==
    [k \in 1..(IF index + 1 > Len(arr) THEN index + 1 ELSE Len(arr)) |->
        IF k = index + 1 THEN e
        ELSE IF k <= Len(arr) THEN arr[k] ELSE Undefined]

\* The first loop of window: up to size calls of next().
RECURSIVE windowFill(_, _, _, _)
windowFill(src, size, i, arr) ==
    IF i < size
    THEN LET n == next(src, i + 1) IN
         IF n.throws THEN [throws |-> TRUE, arr |-> arr, pulls |-> i + 1]
         ELSE IF n.done THEN [throws |-> FALSE, arr |-> arr, pulls |-> i + 1]
         ELSE windowFill(src, size, i + 1, Append(arr, n.value))
    ELSE [throws |-> FALSE, arr |-> arr, pulls |-> i]

\* The second loop of window: for (const e of it).
RECURSIVE windowSlide(_, _, _, _, _, _)
windowSlide(src, size, k, arr, front, acc) ==
    LET n == next(src, k + 1) IN
    IF n.throws THEN Threw(Bang, k + 1, FALSE, <<>>)
    ELSE IF n.done THEN Returned(acc, k + 1, TRUE, <<>>)
    ELSE LET arr2 == SetAt(arr, front, n.value)
             front2 == JsRem(front + 1, size)
         IN  windowSlide(src, size, k + 1, arr2, front2,
                         Append(acc, SliceFrom(arr2, front2)
                                     \o SliceTo(arr2, front2)))

\* A variant of window that does not produce the window of the first size
\* elements.
window_missesFirst(iterable, size) ==
    IF size = 0 THEN Threw(WindowSizeError, 0, FALSE, <<>>)
    ELSE LET filled == windowFill(iterable, size, 0, <<>>) IN
         IF filled.throws THEN Threw(Bang, filled.pulls, FALSE, <<>>)
         ELSE IF Len(filled.arr) < size
         THEN Returned(<<>>, filled.pulls, TRUE, <<>>)
         ELSE windowSlide(iterable, size, filled.pulls, filled.arr, 0, <<>>)

window(iterable, size) ==
    IF size = 0 THEN Threw(WindowSizeError, 0, FALSE, <<>>)
    ELSE LET filled == windowFill(iterable, size, 0, <<>>) IN
         IF filled.throws THEN Threw(Bang, filled.pulls, FALSE, <<>>)
         ELSE IF Len(filled.arr) < size
         THEN Returned(<<>>, filled.pulls, TRUE, <<>>)
         ELSE windowSlide(iterable, size, filled.pulls, filled.arr, 0,
                          <<filled.arr>>)

CallChunk ==
    /\ status = "idle"
    /\ \E src \in Source, size \in -1..(MaxLen + 1),
       strategy \in ChunkStrategy \cup {Undefined, "foo"},
       fillValue \in FillVal :
        LET options == [strategy |-> strategy, fillValue |-> fillValue] IN
        Call("chunk", [iterable |-> src, size |-> size, options |-> options],
             chunk(src, size, options))

CallWindow ==
    /\ status = "idle"
    /\ \E src \in Source, size \in -2..(MaxLen + 1) :
        Call("window", [iterable |-> src, size |-> size], window(src, size))

\* ------------------------------------------------------------------- zip
\* zip(...args): the data iterables, then possibly an options object.  The
\* call is followed round by round: one step per iteration of while (true).
ZipStrategy == {"shortest", "longest", "strict"}
ZipOptions == [strategy : ZipStrategy \cup {"foo"}, fillValue : FillVal]

\* typeof last === "object" && last !== null && "strategy" in last
hasOptions(a) == Len(a) > 0 /\ "strategy" \in DOMAIN a[Len(a)]

zipOptions(a) == IF hasOptions(a) THEN a[Len(a)] ELSE [strategy |-> "shortest"]

zipIterables(a) == IF hasOptions(a) THEN SubSeq(a, 1, Len(a) - 1) ELSE a

\* options["fillValue"]
zipFillValue(options) ==
    IF "fillValue" \in DOMAIN options THEN options.fillValue ELSE Undefined

\* `${options}`: the string conversion of a plain object.
ObjectToString(object) == "[object Object]"

UnrecognisedStrategy(options) ==
    [name |-> "Error",
     message |-> <<"Unrecognised strategy: \"", ObjectToString(options),
                   "\"">>]

UnequalLength ==
    [name |-> "Error",
     message |->
        <<"Zipped iterables of unequal length with strategy = strict">>]

\* The for loop of one round of zipShortest, from iterable number j on.
RECURSIVE shortestBatch(_, _, _, _, _)
shortestBatch(iterables, j, batch, p, x) ==
    IF j > Len(iterables)
    THEN [kind |-> "push", batch |-> batch, pulls |-> p, exhausted |-> x]
    ELSE LET n == next(iterables[j], p[j] + 1)
             p2 == [p EXCEPT ![j] = @ + 1]
         IN  IF n.throws
             THEN [kind |-> "throw", batch |-> batch, pulls |-> p2,
                   exhausted |-> x]
             ELSE IF n.done
             THEN [kind |-> "return", batch |-> batch, pulls |-> p2,
                   exhausted |-> [x EXCEPT ![j] = TRUE]]
             ELSE shortestBatch(iterables, j + 1, Append(batch, n.value),
                                p2, x)

\* The for loop of one round of zipLongest (fill = TRUE: an exhausted
\* iterable contributes fillValue) and of zipStrict (fill = FALSE: it
\* contributes nothing); done counts the exhausted iterables.
RECURSIVE countingBatch(_, _, _, _, _, _, _, _)
countingBatch(iterables, fill, fillValue, j, batch, done, p, x) ==
    IF j > Len(iterables)
    THEN [kind |-> "counted", batch |-> batch, done |-> done, pulls |-> p,
          exhausted |-> x]
    ELSE LET n == next(iterables[j], p[j] + 1)
             p2 == [p EXCEPT ![j] = @ + 1]
         IN  IF n.throws
             THEN [kind |-> "throw", batch |-> batch, done |-> done,
                   pulls |-> p2, exhausted |-> x]
             ELSE IF n.done
             THEN countingBatch(iterables, fill, fillValue, j + 1,
                                IF fill THEN Append(batch, fillValue)
                                ELSE batch,
                                done + 1, p2, [x EXCEPT ![j] = TRUE])
             ELSE countingBatch(iterables, fill, fillValue, j + 1,
                                Append(batch, n.value), done, p2, x)

\* The outcome of a round that raises or returns.
ZipEnds(out) ==
    /\ Outcome("zip", out, out.pulls, out.exhausted)
    /\ UNCHANGED args

\* The outcome of a round that pushes its batch and loops.
ZipLoops(batch, p, x) ==
    /\ result' = Typed("zip", Append(result.arrays, batch))
    /\ pulls' = p
    /\ exhausted' = x
    /\ UNCHANGED <<op, args, status, error, calls>>

\* zip up to its switch: the arguments are told apart and the strategy is
\* dispatched, or rejected.
CallZip ==
    /\ status = "idle"
    /\ \E its \in SeqsUpTo(ZipSource, MaxIter) :
         \E a \in {its} \cup {Append(its, o) : o \in ZipOptions} :
            LET options == zipOptions(a)
                n == Len(zipIterables(a))
            IN  /\ op' = "zip"
                /\ args' = [args |-> a]
                /\ calls' = <<>>
                /\ pulls' = [j \in 1..n |-> 0]
                /\ exhausted' = [j \in 1..n |-> FALSE]
                /\ IF options.strategy \in ZipStrategy
                   THEN /\ status' = "running"
                        /\ result' = Typed("zip", <<>>)
                        /\ error' = NoError
                   ELSE /\ status' = "threw"
                        /\ result' = Nothing
                        /\ error' = UnrecognisedStrategy(options)

zipRunning(strategy) ==
    /\ op = "zip"
    /\ status = "running"
    /\ zipOptions(args.args).strategy = strategy
    /\ Len(result.arrays) < ZipRoundCap

\* A variant of zipShortest that keeps the tuple begun in the round that
\* finds an iterable exhausted.
zipShortest_keepsPartial ==
    /\ zipRunning("shortest")
    /\ LET b == shortestBatch(zipIterables(args.args), 1, <<>>, pulls,
                              exhausted)
       IN  CASE b.kind = "throw" ->
                    ZipEnds(Threw(Bang, b.pulls, b.exhausted, <<>>))
             [] b.kind = "return" ->
                    ZipEnds(Returned(IF b.batch = <<>> THEN result.arrays
                                     ELSE Append(result.arrays, b.batch),
                                     b.pulls, b.exhausted, <<>>))
             [] b.kind = "push" -> ZipLoops(b.batch, b.pulls, b.exhausted)

\* A variant of zipShortest that pulls every iterable in each round before it
\* looks for an exhausted one.
zipShortest_pullsAll ==
    /\ zipRunning("shortest")
    /\ LET b == countingBatch(zipIterables(args.args), FALSE, Undefined, 1,
                              <<>>, 0, pulls, exhausted)
       IN  IF b.kind = "throw"
           THEN ZipEnds(Threw(Bang, b.pulls, b.exhausted, <<>>))
           ELSE IF b.done > 0
           THEN ZipEnds(Returned(result.arrays, b.pulls, b.exhausted, <<>>))
           ELSE ZipLoops(b.batch, b.pulls, b.exhausted)

\* One iteration of the while (true) of zipShortest.
zipShortest ==
    /\ zipRunning("shortest")
    /\ LET b == shortestBatch(zipIterables(args.args), 1, <<>>, pulls,
                              exhausted)
       IN  CASE b.kind = "throw" ->
                    ZipEnds(Threw(Bang, b.pulls, b.exhausted, <<>>))
             [] b.kind = "return" ->
                    ZipEnds(Returned(result.arrays, b.pulls, b.exhausted, <<>>))
             [] b.kind = "push" -> ZipLoops(b.batch, b.pulls, b.exhausted)

\* A variant of zipLongest that appends the batch of the round in which
\* every iterable is exhausted.
zipLongest_keepsFillTuple ==
    /\ zipRunning("longest")
    /\ LET iterables == zipIterables(args.args)
           b == countingBatch(iterables, TRUE,
                              zipFillValue(zipOptions(args.args)), 1, <<>>,
                              0, pulls, exhausted)
       IN  IF b.kind = "throw"
           THEN ZipEnds(Threw(Bang, b.pulls, b.exhausted, <<>>))
           ELSE IF b.done = Len(iterables)
           THEN ZipEnds(Returned(Append(result.arrays, b.batch), b.pulls,
                                 b.exhausted, <<>>))
           ELSE ZipLoops(b.batch, b.pulls, b.exhausted)

\* One iteration of the while (true) of zipLongest.
zipLongest ==
    /\ zipRunning("longest")
    /\ LET iterables == zipIterables(args.args)
           b == countingBatch(iterables, TRUE,
                              zipFillValue(zipOptions(args.args)), 1, <<>>,
                              0, pulls, exhausted)
       IN  IF b.kind = "throw"
           THEN ZipEnds(Threw(Bang, b.pulls, b.exhausted, <<>>))
           ELSE IF b.done = Len(iterables)
           THEN ZipEnds(Returned(result.arrays, b.pulls, b.exhausted, <<>>))
           ELSE ZipLoops(b.batch, b.pulls, b.exhausted)

\* A variant of zipStrict that returns as soon as some iterable is exhausted.
zipStrict_stopsQuietly ==
    /\ zipRunning("strict")
    /\ LET iterables == zipIterables(args.args)
           b == countingBatch(iterables, FALSE, Undefined, 1, <<>>, 0,
                              pulls, exhausted)
       IN  IF b.kind = "throw"
           THEN ZipEnds(Threw(Bang, b.pulls, b.exhausted, <<>>))
           ELSE IF b.done = 0
           THEN ZipLoops(b.batch, b.pulls, b.exhausted)
           ELSE ZipEnds(Returned(result.arrays, b.pulls, b.exhausted, <<>>))

\* One iteration of the while (true) of zipStrict.
zipStrict ==
    /\ zipRunning("strict")
    /\ LET iterables == zipIterables(args.args)
           b == countingBatch(iterables, FALSE, Undefined, 1, <<>>, 0,
                              pulls, exhausted)
       IN  IF b.kind = "throw"
           THEN ZipEnds(Threw(Bang, b.pulls, b.exhausted, <<>>))
           ELSE IF b.done = 0
           THEN ZipLoops(b.batch, b.pulls, b.exhausted)
           ELSE IF b.done = Len(iterables)
           THEN ZipEnds(Returned(result.arrays, b.pulls, b.exhausted, <<>>))
           ELSE ZipEnds(Threw(UnequalLength, b.pulls, b.exhausted, <<>>))

Next ==
    \/ CallAll
    \/ CallAny
    \/ CallFind
    \/ CallFindIndex
    \/ CallTake
    \/ CallDrop
    \/ CallMap
    \/ CallFilter
    \/ CallFlatMap
    \/ CallForEach
    \/ CallLength
    \/ CallConsume
    \/ CallChain
    \/ CallDedup
    \/ CallDropWhile
    \/ CallScan
    \/ CallReduce
    \/ CallTakeWhile
    \/ CallReverse
    \/ CallRepeat
    \/ CallChunk
    \/ CallWindow
    \/ CallZip
    \/ zipShortest
    \/ zipLongest
    \/ zipStrict

Spec == Init /\ [][Next]_vars

\* =================================================================== claims
Finished == status \in {"returned", "threw"}

\* The callback of the call, if it takes one, returns at every index.
CallbackReturns == "raises" \in DOMAIN args => args.raises = NoRaise

\* C1: zip called with zero data iterables terminates and returns the empty
\* result under the default strategy and under shortest, longest and strict:
\* no round of its loop ever appends a tuple, so the array it holds, and
\* returns, stays empty.
C1_ZipOfNothingIsEmpty ==
    (/\ op = "zip"
     /\ status \in {"running", "returned"}
     /\ Len(zipIterables(args.args)) = 0)
        => result.arrays = <<>>

\* The result the documentation of padEnd describes: the complete groups,
\* then the remaining elements unchanged followed by the fill value.
PaddedGroups(s, n, f) ==
    [g \in 1..((Len(s) + n - 1) \div n) |->
        [k \in 1..n |->
            IF (g - 1) * n + k <= Len(s) THEN s[(g - 1) * n + k] ELSE f]]

\* C2: chunk(s, n, {strategy: padEnd, fillValue: f}) with n > 0 returns the
\* complete groups of s and then one last group made of the remaining
\* elements of s unchanged, null and undefined ones included, followed by f
\* in the missing slots only.
C2_PadEndFillsOnlyMissingSlots ==
    (/\ op = "chunk"
     /\ status = "returned"
     /\ args.size > 0
     /\ args.options.strategy = "padEnd")
        => result.arrays = PaddedGroups(args.iterable.items, args.size,
                                 args.options.fillValue)

\* C3: chunk called with a strategy name that is none of dropEnd, keepEnd,
\* padEnd, strict raises an error instead of returning a result.
C3_ChunkRejectsUnknownStrategy ==
    (/\ op = "chunk"
     /\ Finished
     /\ args.options.strategy \notin ChunkStrategy \cup {Undefined})
        => status = "threw"

\* C4: window raises an error for every non-positive size, 0 and negative
\* alike, and returns no result then, whatever the input.
C4_WindowRejectsNonPositiveSize ==
    (op = "window" /\ Finished /\ args.size <= 0)
        => (status = "threw" /\ error = WindowSizeError)

\* C5: zip called with a trailing options object whose strategy is not
\* shortest, longest or strict raises an error, and the message of that
\* error contains the offending strategy value.
C5_ZipErrorNamesStrategy ==
    (/\ op = "zip"
     /\ hasOptions(args.args)
     /\ zipOptions(args.args).strategy \notin ZipStrategy)
        => /\ status = "threw"
           /\ \E i \in DOMAIN error.message :
                error.message[i] = zipOptions(args.args).strategy

From(s, n) ==
    [k \in 1..(IF Len(s) > n THEN Len(s) - n ELSE 0) |-> s[n + k]]

Decides(i) ==
    IF op = "all" THEN ~args.predicate[i] ELSE args.predicate[i]

Deciding == {i \in 0..(Len(args.iterable.items) - 1) : Decides(i)}

FirstDeciding == CHOOSE i \in Deciding : \A j \in Deciding : i <= j

\* C8: all pulls no element after the first one that fails the predicate,
\* and any, find and findIndex pull none after the first one that satisfies
\* it: when there is such an element, at index d, the call makes exactly
\* d + 1 pulls and d + 1 predicate invocations and returns, also on an input
\* that raises when pulled past its last element.  The predicate returns at
\* every index.
C8_ShortCircuit ==
    (op \in {"all", "any", "find", "findIndex"} /\ Deciding # {}
        /\ CallbackReturns)
        => /\ status = "returned"
           /\ pulls[1] = FirstDeciding + 1
           /\ Len(calls) = FirstDeciding + 1
           /\ ~exhausted[1]

C8_Witness ==
    /\ op = "all"
    /\ args.iterable.bang
    /\ Deciding = {Len(args.iterable.items) - 1}
    /\ Len(args.iterable.items) > 1
    /\ status = "returned"
    /\ result.boolean = FALSE

Min(a, b) == IF a < b THEN a ELSE b

\* C9: for n >= 0, take(s, n) returns the first min(n, len(s)) elements of
\* s in order and never pulls more than n times: on an input of N elements
\* that raises when pulled past the N-th, it returns when n <= N and raises
\* when n > N.
C9_TakeStopsPulling ==
    (op = "take" /\ args.limit >= 0)
        => /\ pulls[1] <= args.limit
           /\ status = "returned" <=>
                (~args.iterable.bang
                 \/ args.limit <= Len(args.iterable.items))
           /\ status = "returned" =>
                result.array = SubSeq(args.iterable.items, 1,
                                Min(args.limit, Len(args.iterable.items)))
           /\ status = "threw" => error = Bang

C9_Witness ==
    /\ op = "take"
    /\ args.iterable.bang
    /\ status = "returned"
    /\ args.limit = Len(args.iterable.items)
    /\ args.limit > 0
    /\ pulls[1] = args.limit

\* The operations that take one iterable and are meant to drain it.
DrainOps ==
    {"map", "filter", "flatMap", "forEach", "length", "consume", "chunk",
     "dedup", "dropWhile", "scan", "window"}

\* The call pulled its input until the input reported exhaustion or raised
\* on the pull past its last element, and it raised in the latter case.
Drained(src, p, x) ==
    /\ p = Len(src.items) + 1
    /\ x = ~src.bang
    /\ src.bang => (status = "threw" /\ error = Bang)

\* Every iterable of chain up to the first raising one was drained.
ChainDrained ==
    \A j \in 1..Len(args.iterables) :
        (\A i \in 1..(j - 1) : ~args.iterables[i].bang)
            => Drained(args.iterables[j], pulls[j], exhausted[j])

\* C10 as stated: map, filter, flatMap, forEach, length, consume, chain,
\* chunk, dedup, dropWhile, scan and window (with a valid size) keep pulling
\* until the input reports exhaustion, whatever the callbacks return, and so
\* raise on an input that raises when pulled past its last element.
C10_EagerOpsDrain ==
    /\ (op \in DrainOps /\ (op = "window" => args.size >= 1)
            /\ CallbackReturns)
            => Drained(args.iterable, pulls[1], exhausted[1])
    /\ op = "chain" => ChainDrained

\* C10 as amended: the same, for chunk too only with a valid size (>= 1):
\* chunk with a size <= 0 raises before it pulls anything.
C10_EagerOpsDrainValidSize ==
    /\ (op \in DrainOps /\ (op \in {"window", "chunk"} => args.size >= 1)
            /\ CallbackReturns)
            => Drained(args.iterable, pulls[1], exhausted[1])
    /\ op = "chain" => ChainDrained

C10_Witness ==
    /\ op = "chunk"
    /\ args.size = 2
    /\ args.iterable.bang
    /\ Len(args.iterable.items) = 3
    /\ status = "threw"
    /\ pulls[1] = 4

\* The contiguous slices of length k of s, in input order.
Windows(s, k) ==
    [i \in 1..(IF Len(s) >= k THEN Len(s) - k + 1 ELSE 0) |->
        SubSeq(s, i, i + k - 1)]

\* C11: for every input s of length n and every size k >= 1, window(s, k)
\* returns the empty result when n < k and otherwise exactly n - k + 1
\* windows, window number i (0-based) being s[i], ..., s[i+k-1] in input
\* order; the windows returned are the slices as they were produced, not the
\* later contents of the buffer.
C11_WindowsAreContiguousSlices ==
    (op = "window" /\ args.size >= 1 /\ ~args.iterable.bang)
        => /\ status = "returned"
           /\ Len(result.arrays) =
                (IF Len(args.iterable.items) < args.size THEN 0
                 ELSE Len(args.iterable.items) - args.size + 1)
           /\ \A i \in 1..Len(result.arrays) :
                /\ Len(result.arrays[i]) = args.size
                /\ \A j \in 1..args.size :
                     result.arrays[i][j] = args.iterable.items[i + j - 1]
           /\ result.arrays = Windows(args.iterable.items, args.size)

C11_Witness ==
    /\ op = "window"
    /\ status = "returned"
    /\ args.size = 2
    /\ args.iterable.items = <<"a", "b", Null>>
    /\ result.arrays = <<<<"a", "b">>, <<"b", Null>>>>

\* The data iterables and the strategy of the zip call in progress or done.
ZipIts == zipIterables(args.args)
ZipStrategyOf == zipOptions(args.args).strategy
ZipLens == {Len(ZipIts[j].items) : j \in 1..Len(ZipIts)}
MinLen == CHOOSE m \in ZipLens : \A l \in ZipLens : m <= l
MaxLength == CHOOSE m \in ZipLens : \A l \in ZipLens : m >= l
NoZipBang == \A j \in 1..Len(ZipIts) : ~ZipIts[j].bang

\* Tuple number i (1-based) of the iterables its: position j holds its[j][i],
\* or fill where its[j] has no such element.
TupleAt(its, i, fill) ==
    [j \in 1..Len(its) |->
        IF i <= Len(its[j].items) THEN its[j].items[i] ELSE fill]

Tuples(its, n, fill) == [i \in 1..n |-> TupleAt(its, i, fill)]

IsPrefix(s, t) == Len(s) <= Len(t) /\ s = SubSeq(t, 1, Len(s))

\* C12: with no options object or with strategy shortest, zip of N >= 1
\* iterables returns exactly min(lengths) tuples, tuple number i being
\* (a1[i], ..., aN[i]) in argument order: while it runs it has collected the
\* first of these tuples and nothing else, it does not raise, and it returns
\* them all; nothing from the round that finds an iterable exhausted is kept.
C12_ZipShortest ==
    (op = "zip" /\ ZipStrategyOf = "shortest" /\ Len(ZipIts) >= 1
        /\ NoZipBang)
        => /\ status \in {"running", "returned"}
           /\ IsPrefix(result.arrays, Tuples(ZipIts, MinLen, Undefined))
           /\ status = "returned"
                => result.arrays = Tuples(ZipIts, MinLen, Undefined)
           /\ status = "running" => Len(result.arrays) < ZipRoundCap

\* The first iterable yields "b" in the round that finds the second one
\* exhausted: that "b" is in no tuple.
C12_Witness ==
    /\ op = "zip"
    /\ status = "returned"
    /\ ~hasOptions(args.args)
    /\ Len(ZipIts) = 2
    /\ ZipIts[1].items = <<"a", "b">>
    /\ ZipIts[2].items = <<"a">>
    /\ result.arrays = <<<<"a", "a">>>>
    /\ pulls = <<2, 2>>

\* The fill value the call was given: undefined when omitted.
ZipFillOf == args.args[Len(args.args)].fillValue

\* C13: with strategy longest and fill value x (undefined when omitted), zip
\* of N >= 1 iterables returns exactly max(lengths) tuples, each of length N,
\* position j of tuple i being aj[i] when i < len(aj) and x otherwise; no
\* tuple made only of fill values is appended.  While it runs it has
\* collected the first of these tuples and nothing else.
C13_ZipLongest ==
    (op = "zip" /\ ZipStrategyOf = "longest" /\ Len(ZipIts) >= 1
        /\ NoZipBang)
        => /\ status \in {"running", "returned"}
           /\ IsPrefix(result.arrays, Tuples(ZipIts, MaxLength, ZipFillOf))
           /\ \A i \in 1..Len(result.arrays) :
                /\ Len(result.arrays[i]) = Len(ZipIts)
                /\ \E j \in 1..Len(ZipIts) : i <= Len(ZipIts[j].items)
           /\ status = "returned" => Len(result.arrays) = MaxLength
           /\ status = "running" => Len(result.arrays) < ZipRoundCap

C13_Witness ==
    /\ op = "zip"
    /\ status = "returned"
    /\ ZipStrategyOf = "longest"
    /\ ZipFillOf = "X"
    /\ Len(ZipIts) = 2
    /\ ZipIts[1].items = <<"a">>
    /\ ZipIts[2].items = <<"b", "a">>
    /\ result.arrays = <<<<"a", "b">>, <<"X", "a">>>>

\* C14: with strategy strict, zip of N >= 1 iterables raises an error if and
\* only if the iterables do not all have the same length; when they all have
\* the same length it returns the tuples (a1[i], ..., aN[i]), which are those
\* of strategy shortest (C12) and of strategy longest (C13, where no
\* position is then filled).  While it runs it has collected the first
\* min(lengths) tuples at most.
C14_ZipStrict ==
    (op = "zip" /\ ZipStrategyOf = "strict" /\ Len(ZipIts) >= 1
        /\ NoZipBang)
        => /\ status \in {"running", "returned", "threw"}
           /\ status # "threw"
                => IsPrefix(result.arrays, Tuples(ZipIts, MinLen, Undefined))
           /\ status = "running" => Len(result.arrays) < ZipRoundCap
           /\ status = "threw"
                => (MinLen # MaxLength /\ error = UnequalLength
                    /\ result = Nothing)
           /\ status = "returned"
                => /\ MinLen = MaxLength
                   /\ result.arrays = Tuples(ZipIts, MinLen, Undefined)
                   /\ result.arrays = Tuples(ZipIts, MaxLength, "X")

C14_Witness ==
    /\ op = "zip"
    /\ status = "threw"
    /\ ZipStrategyOf = "strict"
    /\ error = UnequalLength
    /\ Len(ZipIts) = 2
    /\ ZipIts[1].items = <<"a", "b">>
    /\ ZipIts[2].items = <<"a">>
    /\ NoZipBang

\* The strategy of the chunk call: dropEnd when none is given.
ChunkStrategyOf ==
    IF args.options.strategy = Undefined THEN "dropEnd"
    ELSE args.options.strategy

\* The floor(len(s) / n) consecutive groups of n elements of s.
Groups(s, n) == [g \in 1..(Len(s) \div n) |-> SubSeq(s, (g - 1) * n + 1, g * n)]

\* C15: for every input s of length L and size n > 0, chunk(s, n) with no
\* options or with strategy dropEnd returns exactly floor(L / n) groups, each
\* of length exactly n, group number g being s[g*n], ..., s[g*n + n - 1]; the
\* trailing L mod n elements appear in no group.
C15_ChunkDropEnd ==
    (op = "chunk" /\ args.size > 0 /\ ChunkStrategyOf = "dropEnd"
        /\ ~args.iterable.bang)
        => /\ status = "returned"
           /\ Len(result.arrays) = Len(args.iterable.items) \div args.size
           /\ \A g \in 1..Len(result.arrays) :
                /\ Len(result.arrays[g]) = args.size
                /\ \A j \in 1..args.size :
                     result.arrays[g][j]
                        = args.iterable.items[(g - 1) * args.size + j]
           /\ result.arrays = Groups(args.iterable.items, args.size)

C15_Witness ==
    /\ op = "chunk"
    /\ status = "returned"
    /\ args.options.strategy = Undefined
    /\ args.size = 2
    /\ args.iterable.items = <<"a", Null, "b">>
    /\ result.arrays = <<<<"a", Null>>>>

RECURSIVE Flatten(_)
Flatten(groups) ==
    IF groups = <<>> THEN <<>> ELSE Head(groups) \o Flatten(Tail(groups))

\* C16: for every input s and every size n > 0, concatenating the groups of
\* chunk(s, n, {strategy: keepEnd}) in order gives back s exactly; every
\* group but the last has length n and the last has length between 1 and n.
C16_ChunkKeepEndIsLossless ==
    (op = "chunk" /\ args.size > 0 /\ ChunkStrategyOf = "keepEnd"
        /\ ~args.iterable.bang)
        => /\ status = "returned"
           /\ Flatten(result.arrays) = args.iterable.items
           /\ \A g \in 1..Len(result.arrays) :
                IF g < Len(result.arrays)
                THEN Len(result.arrays[g]) = args.size
                ELSE Len(result.arrays[g]) \in 1..args.size

C16_Witness ==
    /\ op = "chunk"
    /\ status = "returned"
    /\ args.options.strategy = "keepEnd"
    /\ args.size = 2
    /\ args.iterable.items = <<"a", Undefined, "b">>
    /\ result.arrays = <<<<"a", Undefined>>, <<"b">>>>

\* C17: with strategy strict and size n > 0, chunk raises an error, returning
\* no groups at all, if and only if len(s) is not a multiple of n; when
\* len(s) is a multiple of n it returns the same groups as dropEnd (C15).
C17_ChunkStrict ==
    (op = "chunk" /\ args.size > 0 /\ ChunkStrategyOf = "strict"
        /\ ~args.iterable.bang)
        => /\ Finished
           /\ status = "threw" <=> Len(args.iterable.items) % args.size # 0
           /\ status = "threw"
                => (error = IncompleteChunk /\ result = Nothing)
           /\ status = "returned"
                => result.arrays = Groups(args.iterable.items, args.size)

C17_Witness ==
    /\ op = "chunk"
    /\ status = "threw"
    /\ error = IncompleteChunk
    /\ args.options.strategy = "strict"
    /\ args.size = 2
    /\ Len(args.iterable.items) = 3
    /\ ~args.iterable.bang

\* C18: chunk raises an error for every size <= 0, under every strategy, and
\* does so before pulling any element from the input.
C18_ChunkRejectsSizeFirst ==
    (op = "chunk" /\ args.size <= 0)
        => /\ status = "threw"
           /\ error = ChunkSizeError
           /\ result = Nothing
           /\ pulls = <<0>>
           /\ exhausted = <<FALSE>>

C18_Witness ==
    /\ op = "chunk"
    /\ status = "threw"
    /\ args.size = -1
    /\ args.options.strategy = "keepEnd"
    /\ args.iterable.items = <<"a", "b">>
    /\ args.iterable.bang
    /\ pulls = <<0>>

\* The left fold of the elements of s from position p (1-based) on, the
\* element at position p being handed to r with index p - 1.
RECURSIVE Fold(_, _, _)
Fold(acc, s, p) ==
    IF p > Len(s) THEN acc ELSE Fold(reducer(acc, s[p], p - 1), s, p + 1)

\* C19: reduce is a left fold with a seed rule.  With no initial, reduce of
\* an empty input raises an error and reduce of s0..sk returns
\* r(...r(r(s0, s1, 1), s2, 2)..., sk, k), the reducer being first invoked
\* on the second element with index 1; with an initial v, reduce of an empty
\* input returns v without invoking the reducer and reduce of s0..sk returns
\* r(...r(r(v, s0, 0), s1, 1)..., sk, k).  An initial of undefined is no
\* initial.
C19_ReduceIsSeededLeftFold ==
    (op = "reduce" /\ ~args.iterable.bang /\ CallbackReturns)
        => LET s == args.iterable.items IN
           IF args.initial = Undefined
           THEN IF s = <<>>
                THEN /\ status = "threw"
                     /\ error.name = "TypeError"
                     /\ calls = <<>>
                ELSE /\ status = "returned"
                     /\ result.term = Fold(Leaf(s[1]), s, 2)
                     /\ Len(calls) = Len(s) - 1
                     /\ Len(s) >= 2
                            => calls[1] = [current |-> Leaf(s[1]),
                                           e |-> s[2], i |-> 1]
           ELSE /\ status = "returned"
                /\ result.term = Fold(Leaf(args.initial), s, 1)
                /\ Len(calls) = Len(s)
                /\ s = <<>> => (result.term = Leaf(args.initial)
                                /\ calls = <<>>)
                /\ s # <<>> => calls[1] = [current |-> Leaf(args.initial),
                                           e |-> s[1], i |-> 0]

C19_Witness ==
    /\ op = "reduce"
    /\ status = "returned"
    /\ args.initial = Undefined
    /\ args.iterable.items = <<"a", "b", Null>>
    /\ result.term = reducer(reducer(Leaf("a"), "b", 1), Null, 2)

\* C20: scan returns exactly one output per input element (the empty result
\* for an empty input, with or without initial): without initial,
\* out[0] = s[0] and out[i] = f(out[i-1], s[i], i) for i >= 1; with an
\* initial v, the seed is not emitted, out[0] = f(v, s[0], 0) and
\* out[i] = f(out[i-1], s[i], i) for i >= 1.  An initial of undefined is no
\* initial.
C20_ScanEmitsOnePerElement ==
    (op = "scan" /\ ~args.iterable.bang /\ CallbackReturns)
        => LET s == args.iterable.items
               out == result.terms
           IN  /\ status = "returned"
               /\ Len(out) = Len(s)
               /\ s # <<>>
                    => out[1] = (IF args.initial = Undefined THEN Leaf(s[1])
                                 ELSE accumulator(Leaf(args.initial), s[1], 0))
               /\ \A k \in 2..Len(out) :
                    out[k] = accumulator(out[k - 1], s[k], k - 1)

C20_Witness ==
    /\ op = "scan"
    /\ status = "returned"
    /\ args.initial = "z"
    /\ args.iterable.items = <<"a", "b">>
    /\ result.terms = <<accumulator(Leaf("z"), "a", 0),
                        accumulator(accumulator(Leaf("z"), "a", 0), "b", 1)>>

\* The first element of each maximal run of consecutive equal elements of s,
\* from position k on, in order.
RECURSIVE RunHeads(_, _)
RunHeads(s, k) ==
    IF k > Len(s) THEN <<>>
    ELSE IF k = 1 \/ s[k] # s[k - 1] THEN <<s[k]>> \o RunHeads(s, k + 1)
    ELSE RunHeads(s, k + 1)

NoAdjacentEqual(s) == \A k \in 2..Len(s) : s[k] # s[k - 1]

\* C21: with the default equality, dedup(s) returns one element for each
\* maximal run of consecutive equal elements of s, in run order, so elements
\* that are equal but not adjacent in s are all kept and an input without
\* adjacent duplicates is returned unchanged.
C21_DedupCollapsesRuns ==
    (op = "dedup" /\ args.options.eq = Undefined /\ ~args.iterable.bang)
        => /\ status = "returned"
           /\ result.array = RunHeads(args.iterable.items, 1)
           /\ NoAdjacentEqual(args.iterable.items)
                => result.array = args.iterable.items

C21_Witness ==
    /\ op = "dedup"
    /\ status = "returned"
    /\ args.options.eq = Undefined
    /\ args.iterable.items = <<"a", "a", "b">>
    /\ result.array = <<"a", "b">>

\* The indices of the input at which the predicate of the call is false.
Failing == {i \in 0..(Len(args.iterable.items) - 1) : ~args.predicate[i]}
FirstFailing == CHOOSE i \in Failing : \A j \in Failing : i <= j

\* C22: takeWhile(s, p) returns the longest prefix s[0..k-1] such that
\* p(s[i], i) holds for every i < k; the first failing element is excluded,
\* the predicate is never invoked on an element after it, and no element
\* after it is pulled or returned even if it would satisfy p.  (When an
\* element fails, the input is not pulled to its end, so whether it would
\* raise there does not matter.)
C22_TakeWhileLongestPrefix ==
    (op = "takeWhile" /\ CallbackReturns)
        => IF Failing # {}
           THEN /\ status = "returned"
                /\ result.array
                     = SubSeq(args.iterable.items, 1, FirstFailing)
                /\ Len(calls) = FirstFailing + 1
                /\ pulls = <<FirstFailing + 1>>
                /\ exhausted = <<FALSE>>
           ELSE ~args.iterable.bang
                    => /\ status = "returned"
                       /\ result.array = args.iterable.items
                       /\ Len(calls) = Len(args.iterable.items)

C22_Witness ==
    /\ op = "takeWhile"
    /\ status = "returned"
    /\ args.iterable.items = <<"a", "b", "a">>
    /\ args.predicate = [i \in 0..(MaxLen - 1) |-> i # 1]
    /\ result.array = <<"a">>
    /\ pulls = <<2>>

\* C23: dropWhile(s, p) returns the suffix of s that starts at the first
\* element s[k] for which p(s[k], k) is false (the empty result when there is
\* none), including every later element unconditionally; the predicate is
\* never invoked on any element after position k.
C23_DropWhileSuffix ==
    (op = "dropWhile" /\ CallbackReturns /\ ~args.iterable.bang)
        => /\ status = "returned"
           /\ IF Failing # {}
              THEN /\ result.array
                        = From(args.iterable.items, FirstFailing)
                   /\ Len(calls) = FirstFailing + 1
                   /\ calls[Len(calls)].i = FirstFailing
              ELSE /\ result.array = <<>>
                   /\ Len(calls) = Len(args.iterable.items)

C23_Witness ==
    /\ op = "dropWhile"
    /\ status = "returned"
    /\ args.iterable.items = <<"a", "b", "a">>
    /\ args.predicate = [i \in 0..(MaxLen - 1) |-> i # 1]
    /\ result.array = <<"b", "a">>
    /\ Len(calls) = 2

\* The operations whose callback receives (element, index).
IndexedOps ==
    {"map", "filter", "flatMap", "forEach", "find", "findIndex", "takeWhile",
     "dropWhile", "all", "any"}

\* C24: in map, filter, flatMap, forEach, find, findIndex, takeWhile,
\* dropWhile, all and any, the k-th callback invocation (counting from 0)
\* receives the k-th element pulled from the input together with the index
\* k: callbacks are invoked in strictly increasing index order, at most once
\* per element, and the index counts input positions, never positions in the
\* output.
C24_CallbackGetsInputIndex ==
    op \in IndexedOps
        => /\ Len(calls) <= Len(args.iterable.items)
           /\ Len(calls) <= pulls[1]
           /\ \A k \in 1..Len(calls) :
                calls[k] = [e |-> args.iterable.items[k], i |-> k - 1]

\* The second element kept by filter is the third of the input: the
\* predicate received it with index 2.
C24_Witness ==
    /\ op = "filter"
    /\ status = "returned"
    /\ args.iterable.items = <<"a", "b", "a">>
    /\ args.predicate = [i \in 0..(MaxLen - 1) |-> i # 1]
    /\ result.array = <<"a", "a">>
    /\ calls[3] = [e |-> "a", i |-> 2]

\* The operations that take a callback.
CallbackOps == IndexedOps \cup {"reduce", "scan", "dedup"}

\* The number in calls (from 1) of the invocation in which the callback of
\* the call raises, if it was made: eq raises at its invocation number
\* args.raises, the other callbacks at the index args.raises.
RaisingCalls ==
    {k \in 1..Len(calls) :
        IF op = "dedup" THEN k = args.raises + 1
        ELSE calls[k].i = args.raises}

\* The position in the input (from 0) of the element handed to invocation k.
PositionOf(k) ==
    IF op = "dedup" THEN k
    ELSE calls[k].i

\* C25: if a caller-supplied callback (predicate, mapping, reducer,
\* accumulator, consumer or dedup's eq) raises while processing the element
\* at position k, the operation raises that same error and returns no
\* result, invokes no callback for any later element and pulls no further
\* element from the input; and the operation raises that error in no other
\* case.
C25_CallbackErrorPropagates ==
    op \in CallbackOps
        => /\ \A k \in RaisingCalls :
                /\ status = "threw"
                /\ error = ShouldNeverHappen
                /\ result = Nothing
                /\ k = Len(calls)
                /\ pulls = <<PositionOf(k) + 1>>
                /\ exhausted = <<FALSE>>
           /\ error = ShouldNeverHappen => RaisingCalls # {}

C25_Witness ==
    /\ op = "forEach"
    /\ status = "threw"
    /\ error = ShouldNeverHappen
    /\ Len(args.iterable.items) = 3
    /\ args.raises = 1
    /\ Len(calls) = 2
    /\ pulls = <<2>>

\* e => !p(e), for the predicate p of the call: it raises where p does.
Negated ==
    Callback([i \in DOMAIN args.predicate |-> ~args.predicate[i]],
             args.raises)

\* The call of the dual operation on a fresh copy of the input with the
\* negated predicate.
Dual ==
    IF op = "all" THEN any(args.iterable, Negated)
    ELSE all(args.iterable, Negated)

\* C26: for every finite input s and every predicate p, all(s, p) equals the
\* negation of any(s, e => !p(e)): the two calls return or raise alike, and
\* where they return their results are opposite; on an empty input all
\* returns true and any returns false, whatever the predicate.
C26_AllAnyDuality ==
    op \in {"all", "any"}
        => /\ Dual.status = status
           /\ Dual.error = error
           /\ status = "returned" => result.boolean = ~Dual.result
           /\ (args.iterable.items = <<>> /\ ~args.iterable.bang)
                => (status = "returned" /\ result.boolean = (op = "all"))

C26_Witness ==
    /\ op = "all"
    /\ status = "returned"
    /\ ~args.iterable.bang
    /\ Len(args.iterable.items) = 3
    /\ args.predicate = [i \in 0..(MaxLen - 1) |-> i # 2]
    /\ args.raises = NoRaise
    /\ result.boolean = FALSE
    /\ Dual.result = TRUE

\* C27: reverse(s) returns the elements of s in reverse traversal order in a
\* new sequence and leaves the input sequence itself unchanged, so
\* reverse(reverse(s)) equals s for every finite s.
C27_ReverseIsInvolution ==
    (op = "reverse" /\ ~args.iterable.bang)
        => LET s == args.iterable.items
               again == reverse([items |-> result.array, bang |-> FALSE])
           IN  /\ status = "returned"
               /\ Len(result.array) = Len(s)
               /\ \A k \in 1..Len(s) : result.array[k] = s[Len(s) + 1 - k]
               /\ result.input = s
               /\ again.status = "returned"
               /\ again.result.array = s
               /\ again.result.input = result.array

C27_Witness ==
    /\ op = "reverse"
    /\ status = "returned"
    /\ args.iterable.items = <<"a", "b", Null>>
    /\ result.array = <<Null, "b", "a">>
    /\ result.input = <<"a", "b", Null>>

\* The call of the other of takeWhile and dropWhile on a fresh copy of the
\* input with the same predicate.
Counterpart ==
    IF op = "takeWhile"
    THEN dropWhile(args.iterable, Callback(args.predicate, args.raises))
    ELSE takeWhile(args.iterable, Callback(args.predicate, args.raises))

\* C28: for every finite input s and every predicate p over (element,
\* index), the result of takeWhile(s, p) followed by the result of
\* dropWhile(s, p), each run on its own fresh copy of s, equals s: the two
\* operations split s at the same position and lose or duplicate no element.
C28_TakeWhileDropWhileSplit ==
    (op \in {"takeWhile", "dropWhile"} /\ ~args.iterable.bang
        /\ CallbackReturns)
        => /\ status = "returned"
           /\ Counterpart.status = "returned"
           /\ LET taken == IF op = "takeWhile" THEN result.array
                           ELSE Counterpart.result
                  dropped == IF op = "takeWhile" THEN Counterpart.result
                             ELSE result.array
              IN  /\ taken \o dropped = args.iterable.items
                  /\ taken = SubSeq(args.iterable.items, 1, Len(taken))
                  /\ dropped = From(args.iterable.items, Len(taken))

C28_Witness ==
    /\ op = "takeWhile"
    /\ status = "returned"
    /\ ~args.iterable.bang
    /\ args.raises = NoRaise
    /\ args.iterable.items = <<"a", "b", "a">>
    /\ args.predicate = [i \in 0..(MaxLen - 1) |-> i # 1]
    /\ result.array = <<"a">>
    /\ Counterpart.result = <<"b", "a">>

\* The name of the eq the dedup call uses.
EqOf ==
    IF args.options.eq = Undefined THEN "strictEquals" ELSE args.options.eq

\* The elements kept of the first n elements of s, an element being kept
\* when eq(last kept element, element) is false.
RECURSIVE Kept(_, _, _)
Kept(s, eq, n) ==
    IF n = 0 THEN <<>>
    ELSE IF n = 1 THEN <<s[1]>>
    ELSE LET before == Kept(s, eq, n - 1) IN
         IF ApplyEq(eq, before[Len(before)], s[n]) THEN before
         ELSE Append(before, s[n])

\* C29: dedup decides whether to keep an element by calling eq(last kept
\* element, element), not by comparing it with its immediate predecessor in
\* the input; consequently, for every deterministic eq, including a
\* non-transitive one, the result contains no two adjacent elements x, y with
\* eq(x, y) true, and dedup applied to its own result with the same eq
\* returns it unchanged.
C29_DedupComparesWithLastKept ==
    (op = "dedup" /\ ~args.iterable.bang /\ CallbackReturns)
        => LET s == args.iterable.items
               again == dedup([items |-> result.array, bang |-> FALSE],
                              [eq |-> EqCallback(args.options.eq, NoRaise)])
           IN  /\ status = "returned"
               /\ result.array = Kept(s, EqOf, Len(s))
               /\ Len(calls) = (IF s = <<>> THEN 0 ELSE Len(s) - 1)
               /\ \A k \in 1..Len(calls) :
                    LET before == Kept(s, EqOf, k) IN
                    calls[k] = [left |-> before[Len(before)],
                                right |-> s[k + 1]]
               /\ \A k \in 2..Len(result.array) :
                    ~ApplyEq(EqOf, result.array[k - 1], result.array[k])
               /\ again.status = "returned"
               /\ again.result = result.array

\* "a" is kept, "b" is near "a" and dropped, null is near "b" but is
\* compared with "a" and kept.
C29_Witness ==
    /\ op = "dedup"
    /\ status = "returned"
    /\ args.options.eq = "near"
    /\ args.raises = NoRaise
    /\ args.iterable.items = <<"a", "b", Null>>
    /\ result.array = <<"a", Null>>
    /\ calls[2] = [left |-> "a", right |-> Null]

\* The first iterable in argument order among the shortest ones: the one
\* zip finds exhausted.
Stopper ==
    CHOOSE j \in 1..Len(ZipIts) :
        /\ Len(ZipIts[j].items) = MinLen
        /\ \A h \in 1..(j - 1) : Len(ZipIts[h].items) > MinLen

\* C30: under strategy shortest, zip pulls one element from each iterable in
\* argument order per round and stops at the first exhausted iterable it
\* meets: every iterable positioned before that one has had one further
\* element pulled and discarded in the stopping round, and no iterable
\* positioned after it is pulled in that round.  So with lengths m < n,
\* zip(long, short) pulls m + 1 elements from long, while zip(short, long)
\* pulls exactly m elements from long.
C30_ZipShortestPullOrder ==
    (op = "zip" /\ ZipStrategyOf = "shortest" /\ Len(ZipIts) >= 1
        /\ NoZipBang)
        => /\ status = "running"
                => \A j \in 1..Len(ZipIts) : pulls[j] = Len(result.arrays)
           /\ status = "returned"
                => \A j \in 1..Len(ZipIts) :
                     /\ j < Stopper
                            => (pulls[j] = MinLen + 1 /\ ~exhausted[j])
                     /\ j = Stopper
                            => (pulls[j] = MinLen + 1 /\ exhausted[j])
                     /\ j > Stopper
                            => (pulls[j] = MinLen /\ ~exhausted[j])

\* zip(short, long) with lengths 1 < 2: one element pulled from long.
C30_Witness ==
    /\ op = "zip"
    /\ status = "returned"
    /\ ZipStrategyOf = "shortest"
    /\ Len(ZipIts) = 2
    /\ NoZipBang
    /\ ZipIts[1].items = <<"a">>
    /\ ZipIts[2].items = <<"a", "b">>
    /\ pulls = <<2, 1>>

====
